---- MODULE Spec2Model ----
(***************************************************************************)
(* ecef_to_sez.py: conversion of an ECEF position to the South-East-Zenith *)
(* frame of an observer, and the command-line program around it.           *)
(*                                                                         *)
(* Python floats are IEEE-754 binary64 values.  They are modelled exactly: *)
(* a finite float is sign * m * 2^e with m an odd natural number (or zero) *)
(* kept as a sequence of base-2^15 limbs, least significant first, and     *)
(* every arithmetic operation rounds to nearest, ties to even, to 53 bits. *)
(***************************************************************************)
EXTENDS Integers, Sequences, FiniteSets, TLC

(***************************************************************************)
(* Natural numbers of any size: sequences of limbs in 0..32767, least      *)
(* significant limb first, no most significant zero limb; zero is << >>.   *)
(***************************************************************************)
Limb(a, i) == IF i <= Len(a) THEN a[i] ELSE 0

RECURSIVE NatStrip(_)
NatStrip(a) ==
    IF a = << >> THEN a
    ELSE IF a[Len(a)] = 0 THEN NatStrip(SubSeq(a, 1, Len(a) - 1))
    ELSE a

RECURSIVE NatAddFrom(_, _, _, _)
NatAddFrom(a, b, i, c) ==
    IF i > Len(a) /\ i > Len(b)
    THEN (IF c = 0 THEN << >> ELSE <<c>>)
    ELSE LET t == Limb(a, i) + Limb(b, i) + c
         IN  <<t % 32768>> \o NatAddFrom(a, b, i + 1, t \div 32768)

NatAdd(a, b) == NatAddFrom(a, b, 1, 0)

\* a - b for a >= b
RECURSIVE NatSubFrom(_, _, _, _)
NatSubFrom(a, b, i, c) ==
    IF i > Len(a) THEN << >>
    ELSE LET t == a[i] - Limb(b, i) - c
         IN  IF t < 0
             THEN <<t + 32768>> \o NatSubFrom(a, b, i + 1, 1)
             ELSE <<t>> \o NatSubFrom(a, b, i + 1, 0)

NatSub(a, b) == NatStrip(NatSubFrom(a, b, 1, 0))

\* -1, 0, 1 as a < b, a = b, a > b
RECURSIVE NatCmpFrom(_, _, _)
NatCmpFrom(a, b, i) ==
    IF i = 0 THEN 0
    ELSE IF a[i] < b[i] THEN -1
    ELSE IF a[i] > b[i] THEN 1
    ELSE NatCmpFrom(a, b, i - 1)

NatCmp(a, b) ==
    IF Len(a) < Len(b) THEN -1
    ELSE IF Len(a) > Len(b) THEN 1
    ELSE NatCmpFrom(a, b, Len(a))

\* a * d for one limb d
RECURSIVE NatMulLimbFrom(_, _, _, _)
NatMulLimbFrom(a, d, i, c) ==
    IF i > Len(a)
    THEN (IF c = 0 THEN << >> ELSE <<c>>)
    ELSE LET t == a[i] * d + c
         IN  <<t % 32768>> \o NatMulLimbFrom(a, d, i + 1, t \div 32768)

NatMulLimb(a, d) == IF d = 0 THEN << >> ELSE NatMulLimbFrom(a, d, 1, 0)

RECURSIVE NatMul(_, _)
NatMul(a, b) ==
    IF a = << >> \/ b = << >> THEN << >>
    ELSE NatAdd(NatMulLimb(a, b[1]),
                LET r == NatMul(a, Tail(b))
                IN  IF r = << >> THEN r ELSE <<0>> \o r)

\* a * 2^k
NatShl(a, k) ==
    IF a = << >> THEN a
    ELSE [i \in 1..(k \div 15) |-> 0] \o NatMulLimb(a, 2 ^ (k % 15))

\* floor(a / 2^k)
NatShr(a, k) ==
    LET w == k \div 15
        b == k % 15
        n == Len(a) - w
    IN  IF n <= 0 THEN << >>
        ELSE NatStrip([i \in 1..n |->
                 (a[w + i] \div (2 ^ b))
                 + (Limb(a, w + i + 1) % (2 ^ b)) * (2 ^ (15 - b))])

\* bit k of a, bit 0 the least significant
NatBit(a, k) == (Limb(a, (k \div 15) + 1) \div (2 ^ (k % 15))) % 2

\* a mod 2^k = 0
NatLowZero(a, k) ==
    /\ \A i \in 1..(k \div 15) : Limb(a, i) = 0
    /\ Limb(a, (k \div 15) + 1) % (2 ^ (k % 15)) = 0

RECURSIVE IntBitLen(_)
IntBitLen(n) == IF n = 0 THEN 0 ELSE 1 + IntBitLen(n \div 2)

NatBitLen(a) == IF a = << >> THEN 0 ELSE 15 * (Len(a) - 1) + IntBitLen(a[Len(a)])

RECURSIVE IntTrailingZeros(_)
IntTrailingZeros(n) == IF n % 2 = 1 THEN 0 ELSE 1 + IntTrailingZeros(n \div 2)

\* the number of trailing zero bits of a # 0
RECURSIVE NatTrailingZeros(_, _)
NatTrailingZeros(a, i) ==
    IF a[i] = 0 THEN 15 + NatTrailingZeros(a, i + 1) ELSE IntTrailingZeros(a[i])

(***************************************************************************)
(* binary64 values.  k is "fin", "inf" or "nan"; s is the sign bit; a      *)
(* finite non-zero value is (-1)^s * m * 2^e with m odd; zero has m = << >>*)
(* and e = 0, and keeps its sign.                                          *)
(***************************************************************************)
Fin(s, m, e) == [k |-> "fin", s |-> s, m |-> m, e |-> e]
Zero(s) == Fin(s, << >>, 0)
Inf(s) == [k |-> "inf", s |-> s, m |-> << >>, e |-> 0]
NaN == [k |-> "nan", s |-> 0, m |-> << >>, e |-> 0]

IsZero(x) == x.k = "fin" /\ x.m = << >>
IsFinite(x) == x.k = "fin"

\* m * 2^e, m # 0, with the trailing zero bits of m moved into the exponent
Odd(s, m, e) ==
    LET z == NatTrailingZeros(m, 1)
    IN  Fin(s, NatShr(m, z), e + z)

\* The exact value (-1)^s * m * 2^e rounded to binary64: 53 significant bits,
\* least exponent -1074, nearest with ties to even, infinity from 2^1024 on.
FRound(s, m, e) ==
    IF m = << >> THEN Zero(s)
    ELSE
      LET n == NatBitLen(m)
          q == IF e + n - 53 > -1074 THEN e + n - 53 ELSE -1074
      IN  IF q <= e
          THEN (IF e + n > 1024 THEN Inf(s) ELSE Odd(s, m, e))
          ELSE
            LET sh   == q - e
                t    == NatShr(m, sh)
                half == NatBit(m, sh - 1) = 1
                rest == ~NatLowZero(m, sh - 1)
                up   == half /\ (rest \/ NatBit(t, 0) = 1)
                r    == IF up THEN NatAdd(t, <<1>>) ELSE t
            IN  IF r = << >> THEN Zero(s)
                ELSE IF q + NatBitLen(r) > 1024 THEN Inf(s)
                ELSE Odd(s, r, q)

\* -x
FNeg(x) == IF x.k = "nan" THEN x ELSE [x EXCEPT !.s = 1 - x.s]

\* The position above the leading bit of a finite non-zero x: |x| < 2^Top(x)
Top(x) == x.e + NatBitLen(x.m)

\* x + y.  An operand more than 60 binary places below the other is less than
\* a quarter of the last place of the other, so the sum rounds to the other.
FAdd(x, y) ==
    IF x.k = "nan" \/ y.k = "nan" THEN NaN
    ELSE IF x.k = "inf"
    THEN (IF y.k = "inf" /\ y.s # x.s THEN NaN ELSE x)
    ELSE IF y.k = "inf" THEN y
    ELSE IF IsZero(x) /\ IsZero(y) THEN Zero(IF x.s = 1 /\ y.s = 1 THEN 1 ELSE 0)
    ELSE IF IsZero(x) THEN y
    ELSE IF IsZero(y) THEN x
    ELSE IF Top(x) - Top(y) > 60 THEN x
    ELSE IF Top(y) - Top(x) > 60 THEN y
    ELSE
      LET e  == IF x.e < y.e THEN x.e ELSE y.e
          mx == NatShl(x.m, x.e - e)
          my == NatShl(y.m, y.e - e)
          c  == NatCmp(mx, my)
      IN  IF x.s = y.s THEN FRound(x.s, NatAdd(mx, my), e)
          ELSE IF c = 0 THEN Zero(0)
          ELSE IF c > 0 THEN FRound(x.s, NatSub(mx, my), e)
          ELSE FRound(y.s, NatSub(my, mx), e)

\* x - y
FSub(x, y) == FAdd(x, FNeg(y))

\* x * y
FMul(x, y) ==
    LET s == (x.s + y.s) % 2
    IN  IF x.k = "nan" \/ y.k = "nan" THEN NaN
        ELSE IF x.k = "inf" \/ y.k = "inf"
        THEN (IF IsZero(x) \/ IsZero(y) THEN NaN ELSE Inf(s))
        ELSE FRound(s, NatMul(x.m, y.m), x.e + y.e)


(***************************************************************************)
(* The C library functions the program calls, by their values on the       *)
(* arguments the model's inputs lead to (glibc, binary64).                 *)
(***************************************************************************)
\* math.atan2(y, x): <<y, x, result>>
atan2_table == {
    <<Fin(1, <<9827>>, -1), Fin(0, <<19661, 6553, 27443, 108>>, -42), Fin(1, <<13793, 23344, 5350, 11>>, -48)>>,
    <<Fin(1, <<1>>, 0), Fin(1, <<1>>, 0), Fin(1, <<4329, 32563, 13048, 75>>, -50)>>,
    <<Fin(1, <<1>>, 0), Zero(1), Fin(1, <<1443, 21777, 4349, 25>>, -49)>>,
    <<Fin(1, <<1>>, 0), Zero(0), Fin(1, <<1443, 21777, 4349, 25>>, -49)>>,
    <<Fin(1, <<1>>, 0), Fin(0, <<1>>, 0), Fin(1, <<1443, 21777, 4349, 25>>, -50)>>,
    <<Fin(1, <<1>>, 0), Fin(0, <<15309, 19710, 633, 181>>, -52), Fin(1, <<26835, 261, 18442, 157>>, -53)>>,
    <<Zero(1), Fin(1, <<1>>, 0), Fin(1, <<1443, 21777, 4349, 25>>, -48)>>,
    <<Zero(1), Zero(1), Fin(1, <<1443, 21777, 4349, 25>>, -48)>>,
    <<Zero(1), Zero(0), Zero(1)>>,
    <<Zero(1), Fin(0, <<1>>, 0), Zero(1)>>,
    <<Zero(1), Fin(0, <<15309, 19710, 633, 181>>, -52), Zero(1)>>,
    <<Zero(0), Fin(1, <<1>>, 0), Fin(0, <<1443, 21777, 4349, 25>>, -48)>>,
    <<Zero(0), Zero(1), Fin(0, <<1443, 21777, 4349, 25>>, -48)>>,
    <<Zero(0), Zero(0), Zero(0)>>,
    <<Zero(0), Fin(0, <<1>>, 0), Zero(0)>>,
    <<Zero(0), Fin(0, <<15309, 19710, 633, 181>>, -52), Zero(0)>>,
    <<Zero(0), Fin(0, <<5>>, 0), Zero(0)>>,
    <<Zero(0), Fin(0, <<3189>>, 1), Zero(0)>>,
    <<Zero(0), Fin(0, <<6029, 9437, 10380, 199>>, -40), Zero(0)>>,
    <<Zero(0), Fin(0, <<12589, 22487, 20017, 83>>, 613), Zero(0)>>,
    <<Fin(0, <<1>>, 0), Fin(1, <<1>>, 0), Fin(0, <<4329, 32563, 13048, 75>>, -50)>>,
    <<Fin(0, <<1>>, 0), Zero(1), Fin(0, <<1443, 21777, 4349, 25>>, -49)>>,
    <<Fin(0, <<1>>, 0), Zero(0), Fin(0, <<1443, 21777, 4349, 25>>, -49)>>,
    <<Fin(0, <<1>>, 0), Fin(0, <<1>>, 0), Fin(0, <<1443, 21777, 4349, 25>>, -50)>>,
    <<Fin(0, <<1>>, 0), Fin(0, <<15309, 19710, 633, 181>>, -52), Fin(0, <<26835, 261, 18442, 157>>, -53)>>,
    <<Fin(0, <<1>>, 0), Fin(0, <<15309, 19710, 633, 181>>, -51), Fin(0, <<2185, 20229, 32710, 86>>, -53)>>,
    <<Fin(0, <<1>>, 1), Fin(0, <<1>>, 1), Fin(0, <<1443, 21777, 4349, 25>>, -50)>>,
    <<Fin(0, <<1>>, 2), Fin(0, <<3>>, 0), Fin(0, <<15183, 2755, 12700, 237>>, -53)>>,
    <<Fin(0, <<13107, 26214, 15564, 247>>, -41), Fin(0, <<10075, 12395, 30771, 155>>, -40), Fin(0, <<9933, 6244, 23451, 171>>, -53)>>,
    <<Fin(0, <<1589>>, 2), Zero(0), Fin(0, <<1443, 21777, 4349, 25>>, -49)>>,
    <<Fin(0, <<12589, 22487, 20017, 83>>, 613), Zero(0), Fin(0, <<1443, 21777, 4349, 25>>, -49)>>,
    <<Fin(0, <<12589, 22487, 20017, 83>>, 613), Fin(0, <<1>>, 0), Fin(0, <<1443, 21777, 4349, 25>>, -49)>>
}

\* math.sqrt(x): <<x, result>>
sqrt_table == {
    <<Zero(0), Zero(0)>>,
    <<Fin(0, <<1>>, 0), Fin(0, <<1>>, 0)>>,
    <<Fin(0, <<1>>, 1), Fin(0, <<15309, 19710, 633, 181>>, -52)>>,
    <<Fin(0, <<1>>, 3), Fin(0, <<15309, 19710, 633, 181>>, -51)>>,
    <<Fin(0, <<25>>, 0), Fin(0, <<5>>, 0)>>,
    <<Fin(0, <<2621, 6062, 31998, 189>>, -28), Fin(0, <<10075, 12395, 30771, 155>>, -40)>>,
    <<Fin(0, <<11641, 310>>, 2), Fin(0, <<3189>>, 1)>>,
    <<Fin(0, <<15523, 28462, 13042, 19>>, -24), Fin(0, <<6029, 9437, 10380, 199>>, -40)>>
}

\* math.sin(x): <<x, result>>
sin_table == {
    <<Fin(1, <<1443, 21777, 4349, 25>>, -48), Fin(1, <<23559, 26152, 6296, 141>>, -105)>>,
    <<Fin(1, <<4329, 32563, 13048, 75>>, -50), Fin(1, <<15309, 19710, 633, 181>>, -53)>>,
    <<Fin(1, <<1443, 21777, 4349, 25>>, -49), Fin(1, <<1>>, 0)>>,
    <<Fin(1, <<13793, 23344, 5350, 11>>, -48), Fin(1, <<4103, 1273, 2386, 252>>, -53)>>,
    <<Fin(1, <<1443, 21777, 4349, 25>>, -50), Fin(1, <<20211, 13119, 8350, 45>>, -51)>>,
    <<Fin(1, <<14901, 16449, 12802, 39>>, -51), Fin(1, <<13085, 2848, 26269, 147>>, -53)>>,
    <<Fin(1, <<26835, 261, 18442, 157>>, -53), Fin(1, <<3271, 8904, 31143, 36>>, -51)>>,
    <<Zero(1), Zero(1)>>,
    <<Zero(0), Zero(0)>>,
    <<Fin(0, <<2185, 20229, 32710, 86>>, -53), Fin(0, <<21845, 10922, 21845, 170>>, -54)>>,
    <<Fin(0, <<26835, 261, 18442, 157>>, -53), Fin(0, <<3271, 8904, 31143, 36>>, -51)>>,
    <<Fin(0, <<14901, 16449, 12802, 39>>, -51), Fin(0, <<13085, 2848, 26269, 147>>, -53)>>,
    <<Fin(0, <<9933, 6244, 23451, 171>>, -53), Fin(0, <<14373, 6202, 7968, 1>>, -46)>>,
    <<Fin(0, <<4967, 19506, 28109, 85>>, -52), Fin(0, <<4737, 7480, 4120, 159>>, -53)>>,
    <<Fin(0, <<1443, 21777, 4349, 25>>, -50), Fin(0, <<20211, 13119, 8350, 45>>, -51)>>,
    <<Fin(0, <<15183, 2755, 12700, 237>>, -53), Fin(0, <<6553, 13107, 26214, 204>>, -53)>>,
    <<Fin(0, <<1443, 21777, 4349, 25>>, -49), Fin(0, <<1>>, 0)>>,
    <<Fin(0, <<4329, 32563, 13048, 75>>, -50), Fin(0, <<15309, 19710, 633, 181>>, -53)>>,
    <<Fin(0, <<1443, 21777, 4349, 25>>, -48), Fin(0, <<23559, 26152, 6296, 141>>, -105)>>
}

\* math.cos(x): <<x, result>>
cos_table == {
    <<Fin(1, <<1443, 21777, 4349, 25>>, -48), Fin(1, <<1>>, 0)>>,
    <<Fin(1, <<4329, 32563, 13048, 75>>, -50), Fin(1, <<20211, 13119, 8350, 45>>, -51)>>,
    <<Fin(1, <<1443, 21777, 4349, 25>>, -49), Fin(0, <<23559, 26152, 6296, 141>>, -106)>>,
    <<Fin(1, <<13793, 23344, 5350, 11>>, -48), Fin(0, <<25119, 22143, 22115, 178>>, -55)>>,
    <<Fin(1, <<1443, 21777, 4349, 25>>, -50), Fin(0, <<15309, 19710, 633, 181>>, -53)>>,
    <<Fin(1, <<14901, 16449, 12802, 39>>, -51), Fin(0, <<5663, 28684, 16762, 104>>, -52)>>,
    <<Fin(1, <<26835, 261, 18442, 157>>, -53), Fin(0, <<5663, 28684, 16762, 104>>, -52)>>,
    <<Zero(1), Fin(0, <<1>>, 0)>>,
    <<Zero(0), Fin(0, <<1>>, 0)>>,
    <<Fin(0, <<2185, 20229, 32710, 86>>, -53), Fin(0, <<32051, 24062, 22267, 120>>, -52)>>,
    <<Fin(0, <<26835, 261, 18442, 157>>, -53), Fin(0, <<5663, 28684, 16762, 104>>, -52)>>,
    <<Fin(0, <<14901, 16449, 12802, 39>>, -51), Fin(0, <<5663, 28684, 16762, 104>>, -52)>>,
    <<Fin(0, <<9933, 6244, 23451, 171>>, -53), Fin(0, <<11475, 3923, 17589, 200>>, -53)>>,
    <<Fin(0, <<4967, 19506, 28109, 85>>, -52), Fin(0, <<11475, 3923, 17589, 200>>, -53)>>,
    <<Fin(0, <<1443, 21777, 4349, 25>>, -50), Fin(0, <<15309, 19710, 633, 181>>, -53)>>,
    <<Fin(0, <<15183, 2755, 12700, 237>>, -53), Fin(0, <<19661, 6553, 13107, 38>>, -51)>>,
    <<Fin(0, <<1443, 21777, 4349, 25>>, -49), Fin(0, <<23559, 26152, 6296, 141>>, -106)>>,
    <<Fin(0, <<4329, 32563, 13048, 75>>, -50), Fin(1, <<20211, 13119, 8350, 45>>, -51)>>,
    <<Fin(0, <<1443, 21777, 4349, 25>>, -48), Fin(1, <<1>>, 0)>>
}

\* float(str) for the literals of the input domain: <<str, result>>
float_table == {
    <<"-4913.5", Fin(1, <<9827>>, -1)>>,
    <<"-2", Fin(1, <<1>>, 1)>>,
    <<"-1", Fin(1, <<1>>, 0)>>,
    <<"-0", Zero(1)>>,
    <<"0", Zero(0)>>,
    <<"0.5", Fin(0, <<1>>, -1)>>,
    <<"1", Fin(0, <<1>>, 0)>>,
    <<"2", Fin(0, <<1>>, 1)>>,
    <<"3", Fin(0, <<3>>, 0)>>,
    <<"4", Fin(0, <<1>>, 2)>>,
    <<"6", Fin(0, <<3>>, 1)>>,
    <<"8", Fin(0, <<1>>, 3)>>,
    <<"870.7", Fin(0, <<19661, 6553, 27443, 108>>, -42)>>,
    <<"871.7", Fin(0, <<19661, 6553, 31539, 108>>, -42)>>,
    <<"3959.6", Fin(0, <<13107, 26214, 15564, 247>>, -41)>>,
    <<"6356", Fin(0, <<1589>>, 2)>>,
    <<"6357", Fin(0, <<6357>>, 0)>>,
    <<"6378", Fin(0, <<3189>>, 1)>>,
    <<"6378.137", Fin(0, <<6029, 9437, 10380, 199>>, -40)>>,
    <<"6379", Fin(0, <<6379>>, 0)>>,
    <<"1e200", Fin(0, <<12589, 22487, 20017, 83>>, 613)>>,
    <<"2e200", Fin(0, <<12589, 22487, 20017, 83>>, 614)>>
}

math_atan2(y, x) == (CHOOSE t \in atan2_table : t[1] = y /\ t[2] = x)[3]
math_sqrt(x) == (CHOOSE t \in sqrt_table : t[1] = x)[2]
math_sin(x) == (CHOOSE t \in sin_table : t[1] = x)[2]
math_cos(x) == (CHOOSE t \in cos_table : t[1] = x)[2]

\* 180.0 / pi and pi / 180.0, the factors of math.degrees and math.radians
radToDeg == Fin(0, <<30783, 1688, 21230, 28>>, -44)
degToRad == Fin(0, <<7481, 17573, 32026, 142>>, -58)
math_degrees(x) == FMul(x, radToDeg)
math_radians(x) == FMul(x, degToRad)

\* The outcome of an expression: a value, or the exception it raises.
Value(v) == [exc |-> "", val |-> v]
Raise(e) == [exc |-> e, val |-> NaN]

\* x ** 2: the square, OverflowError when a finite x has no finite square
float_pow2(x) ==
    IF x.k = "nan" THEN Value(NaN)
    ELSE IF x.k = "inf" THEN Value(Inf(0))
    ELSE LET r == FMul(x, x)
         IN  IF r.k = "inf" THEN Raise("OverflowError") ELSE Value(r)

\* float(str): ValueError for a string that is no float literal
NotLiterals == {"abc", "", "1,5"}
float(str) ==
    IF str \in NotLiterals THEN Raise("ValueError")
    ELSE Value((CHOOSE t \in float_table : t[1] = str)[2])

(***************************************************************************)
(* ecef_to_lat_lon and ecef_to_sez                                         *)
(***************************************************************************)
\* ecef_to_lat_lon returning its pair in the wrong order: return lon_deg, lat_deg
ecef_to_lat_lon_swapped(o_x_km, o_y_km, o_z_km) ==
    LET lon_rad == math_atan2(o_y_km, o_x_km)
        x2      == float_pow2(o_x_km)
        y2      == float_pow2(o_y_km)
    IN  IF x2.exc # "" THEN [exc |-> x2.exc, lat_deg |-> NaN, lon_deg |-> NaN]
        ELSE IF y2.exc # "" THEN [exc |-> y2.exc, lat_deg |-> NaN, lon_deg |-> NaN]
        ELSE
          LET hyp     == math_sqrt(FAdd(x2.val, y2.val))
              lat_rad == math_atan2(o_z_km, hyp)
          IN  [exc |-> "", lat_deg |-> math_degrees(lon_rad),
                           lon_deg |-> math_degrees(lat_rad)]

ecef_to_lat_lon(o_x_km, o_y_km, o_z_km) ==
    LET lon_rad == math_atan2(o_y_km, o_x_km)
        x2      == float_pow2(o_x_km)
        y2      == float_pow2(o_y_km)
    IN  IF x2.exc # "" THEN [exc |-> x2.exc, lat_deg |-> NaN, lon_deg |-> NaN]
        ELSE IF y2.exc # "" THEN [exc |-> y2.exc, lat_deg |-> NaN, lon_deg |-> NaN]
        ELSE
          LET hyp     == math_sqrt(FAdd(x2.val, y2.val))
              lat_rad == math_atan2(o_z_km, hyp)
              lat_deg == math_degrees(lat_rad)
              lon_deg == math_degrees(lon_rad)
          IN  [exc |-> "", lat_deg |-> lat_deg, lon_deg |-> lon_deg]

\* Rotate with sin_lat in place of cos_lat in the last term of s_km
Rotate_sin_for_cos(lat_rad, lon_rad, o_x_km, o_y_km, o_z_km, x_km, y_km, z_km) ==
    LET dx == FSub(x_km, o_x_km)
        dy == FSub(y_km, o_y_km)
        dz == FSub(z_km, o_z_km)
        sin_lat == math_sin(lat_rad)
        cos_lat == math_cos(lat_rad)
        sin_lon == math_sin(lon_rad)
        cos_lon == math_cos(lon_rad)
        s_km == FAdd(FSub(FMul(FMul(FNeg(sin_lat), cos_lon), dx),
                          FMul(FMul(sin_lat, sin_lon), dy)),
                     FMul(sin_lat, dz))
        e_km == FAdd(FMul(FNeg(sin_lon), dx), FMul(cos_lon, dy))
        z_km_90 == FAdd(FAdd(FMul(FMul(cos_lat, cos_lon), dx),
                             FMul(FMul(cos_lat, sin_lon), dy)),
                        FMul(sin_lat, dz))
    IN  [exc |-> "", s_km |-> s_km, e_km |-> e_km, z_km |-> z_km_90]

\* The rotation of lines 76-92, from the angles in radians.
Rotate(lat_rad, lon_rad, o_x_km, o_y_km, o_z_km, x_km, y_km, z_km) ==
    LET dx == FSub(x_km, o_x_km)
        dy == FSub(y_km, o_y_km)
        dz == FSub(z_km, o_z_km)
        sin_lat == math_sin(lat_rad)
        cos_lat == math_cos(lat_rad)
        sin_lon == math_sin(lon_rad)
        cos_lon == math_cos(lon_rad)
        s_km == FAdd(FSub(FMul(FMul(FNeg(sin_lat), cos_lon), dx),
                          FMul(FMul(sin_lat, sin_lon), dy)),
                     FMul(cos_lat, dz))
        e_km == FAdd(FMul(FNeg(sin_lon), dx), FMul(cos_lon, dy))
        \* line 90 rebinds the name z_km; dz above was computed from the argument
        z_km_90 == FAdd(FAdd(FMul(FMul(cos_lat, cos_lon), dx),
                             FMul(FMul(cos_lat, sin_lon), dy)),
                        FMul(sin_lat, dz))
    IN  [exc |-> "", s_km |-> s_km, e_km |-> e_km, z_km |-> z_km_90]

ecef_to_sez(o_x_km, o_y_km, o_z_km, x_km, y_km, z_km) ==
    LET ll == ecef_to_lat_lon(o_x_km, o_y_km, o_z_km)
    IN  IF ll.exc # ""
        THEN [exc |-> ll.exc, s_km |-> NaN, e_km |-> NaN, z_km |-> NaN]
        ELSE Rotate(math_radians(ll.lat_deg), math_radians(ll.lon_deg),
                    o_x_km, o_y_km, o_z_km, x_km, y_km, z_km)

(***************************************************************************)
(* The program: main(), one action per statement.  pc is the line of the   *)
(* statement to run next, 0 once the process has exited.                   *)
(***************************************************************************)
VARIABLES
    argv,         \* sys.argv: the program name, then the arguments
    pc,
    env,          \* the local variables of main
    lat_lon,      \* what ecef_to_lat_lon returned to ecef_to_sez (line 70)
    ret,          \* what ecef_to_sez returned or raised (line 110)
    stdout,       \* the lines printed
    stderr,       \* the exception of the traceback, if any
    exit_status,  \* -1 while the process runs
    float_calls,  \* the calls of float() made
    sez_calls     \* the calls of ecef_to_sez made

vars == <<argv, pc, env, lat_lon, ret, stdout, stderr, exit_status, float_calls, sez_calls>>

\* a variable not yet bound
None == [k |-> "none", s |-> 0, m |-> << >>, e |-> 0]

Names == {"o_x_km", "o_y_km", "o_z_km", "x_km", "y_km", "z_km", "s_km", "e_km"}
ArgNames == <<"o_x_km", "o_y_km", "o_z_km", "x_km", "y_km", "z_km">>

Usage == "Usage: python3 ecef_to_sez.py o_x_km o_y_km o_z_km x_km y_km z_km"

\* print(str) and print(x) for a float x, which prints repr(x)
StrLine(str) == [kind |-> "str", str |-> str, val |-> None]
FloatLine(x) == [kind |-> "float", str |-> "", val |-> x]

\* The inputs of the model.
MaxArgs == 8
ObserverLiterals == {"0", "-0", "1", "-1"}
TargetLiterals == {"0", "1", "2"}
SpecialPairs == {
    << <<"6378", "0", "0">>, <<"6378", "0", "1">> >>,
    << <<"6378", "0", "0">>, <<"6379", "0", "0">> >>,
    << <<"0", "0", "6356">>, <<"0", "0", "6357">> >>,
    << <<"-0", "0", "6356">>, <<"0", "0", "6357">> >>,
    << <<"0", "0", "-1">>, <<"0", "0", "-2">> >>,
    << <<"-1", "0", "0">>, <<"-2", "0", "0">> >>,
    << <<"0", "1", "0">>, <<"0", "2", "0">> >>,
    << <<"3", "4", "0">>, <<"6", "8", "0">> >>,
    << <<"2", "2", "1">>, <<"4", "4", "2">> >>,
    << <<"1", "1", "1">>, <<"2", "2", "2">> >>,
    << <<"1e200", "0", "0">>, <<"2e200", "0", "0">> >>,
    << <<"0", "1e200", "0">>, <<"0", "0", "0">> >>,
    << <<"1", "1e200", "1">>, <<"1", "1", "1">> >>,
    << <<"6378.137", "0", "0">>, <<"6378.137", "0", "0.5">> >>,
    << <<"870.7", "-4913.5", "3959.6">>, <<"871.7", "-4913.5", "3959.6">> >>,
    << <<"870.7", "-4913.5", "3959.6">>, <<"0", "0", "0">> >> }

Triples(S) == {<<a, b, c>> : a \in S, b \in S, c \in S}

NumericArgs ==
    {o \o p : o \in Triples(ObserverLiterals), p \in Triples(TargetLiterals)}
    \cup {o \o o : o \in Triples(ObserverLiterals)}
    \cup {sp[1] \o sp[2] : sp \in SpecialPairs}
    \cup {sp[1] \o sp[1] : sp \in SpecialPairs}

CountArgs ==
    {[i \in 1..n |-> t] : n \in 0..MaxArgs, t \in {"1", "abc"}}

BadLiteralArgs ==
    {[i \in 1..6 |-> IF i \in S THEN b ELSE "1"] :
        S \in (SUBSET (1..6)) \ {{}}, b \in NotLiterals}

Init ==
    /\ argv \in {<<"ecef_to_sez.py">> \o a :
                    a \in NumericArgs \cup CountArgs \cup BadLiteralArgs}
    /\ pc = 97
    /\ env = [n \in Names |-> None]
    /\ lat_lon = [exc |-> "", lat_deg |-> None, lon_deg |-> None]
    /\ ret = [exc |-> "", s_km |-> None, e_km |-> None, z_km |-> None]
    /\ stdout = << >>
    /\ stderr = << >>
    /\ exit_status = -1
    /\ float_calls = 0
    /\ sez_calls = 0

\* Line97 with the test written len(sys.argv) < 7
Line97_less_than ==
    /\ pc = 97
    /\ pc' = IF Len(argv) < 7 THEN 98 ELSE 102
    /\ UNCHANGED <<argv, env, lat_lon, ret, stdout, stderr, exit_status, float_calls, sez_calls>>

\* if len(sys.argv) != 7:
Line97 ==
    /\ pc = 97
    /\ pc' = IF Len(argv) # 7 THEN 98 ELSE 102
    /\ UNCHANGED <<argv, env, lat_lon, ret, stdout, stderr, exit_status, float_calls, sez_calls>>

\* print("Usage: ...")
Line98 ==
    /\ pc = 98
    /\ stdout' = Append(stdout, StrLine(Usage))
    /\ pc' = 99
    /\ UNCHANGED <<argv, env, lat_lon, ret, stderr, exit_status, float_calls, sez_calls>>

\* sys.exit(1)
Line99 ==
    /\ pc = 99
    /\ exit_status' = 1
    /\ pc' = 0
    /\ UNCHANGED <<argv, env, lat_lon, ret, stdout, stderr, float_calls, sez_calls>>

\* ParseArg with the ValueError caught and 0.0 taken for the argument
ParseArg_default_zero(i) ==
    /\ pc = 101 + i
    /\ float_calls' = float_calls + 1
    /\ LET r == float(argv[i + 1])
       IN  env' = [env EXCEPT ![ArgNames[i]] = IF r.exc # "" THEN Zero(0) ELSE r.val]
    /\ pc' = IF i = 6 THEN 110 ELSE pc + 1
    /\ UNCHANGED <<argv, lat_lon, ret, stdout, stderr, exit_status, sez_calls>>

\* lines 102-107: <name> = float(sys.argv[i]); an exception nobody handles
\* ends the process with a traceback and status 1
ParseArg(i) ==
    /\ pc = 101 + i
    /\ float_calls' = float_calls + 1
    /\ LET r == float(argv[i + 1])
       IN  IF r.exc # ""
           THEN /\ stderr' = Append(stderr, r.exc)
                /\ exit_status' = 1
                /\ pc' = 0
                /\ UNCHANGED env
           ELSE /\ env' = [env EXCEPT ![ArgNames[i]] = r.val]
                /\ pc' = IF i = 6 THEN 110 ELSE pc + 1
                /\ UNCHANGED <<stderr, exit_status>>
    /\ UNCHANGED <<argv, lat_lon, ret, stdout, sez_calls>>

\* s_km, e_km, z_km = ecef_to_sez(o_x_km, o_y_km, o_z_km, x_km, y_km, z_km)
Line110 ==
    /\ pc = 110
    /\ sez_calls' = sez_calls + 1
    /\ lat_lon' = ecef_to_lat_lon(env["o_x_km"], env["o_y_km"], env["o_z_km"])
    /\ ret' = ecef_to_sez(env["o_x_km"], env["o_y_km"], env["o_z_km"],
                          env["x_km"], env["y_km"], env["z_km"])
    /\ IF ret'.exc # ""
       THEN /\ stderr' = Append(stderr, ret'.exc)
            /\ exit_status' = 1
            /\ pc' = 0
            /\ UNCHANGED env
       ELSE /\ env' = [env EXCEPT !["s_km"] = ret'.s_km,
                                  !["e_km"] = ret'.e_km,
                                  !["z_km"] = ret'.z_km]
            /\ pc' = 113
            /\ UNCHANGED <<stderr, exit_status>>
    /\ UNCHANGED <<argv, stdout, float_calls>>

\* print(s_km)
Line113 ==
    /\ pc = 113
    /\ stdout' = Append(stdout, FloatLine(env["s_km"]))
    /\ pc' = 114
    /\ UNCHANGED <<argv, env, lat_lon, ret, stderr, exit_status, float_calls, sez_calls>>

\* print(e_km)
Line114 ==
    /\ pc = 114
    /\ stdout' = Append(stdout, FloatLine(env["e_km"]))
    /\ pc' = 115
    /\ UNCHANGED <<argv, env, lat_lon, ret, stderr, exit_status, float_calls, sez_calls>>

\* print(z_km)
Line115 ==
    /\ pc = 115
    /\ stdout' = Append(stdout, FloatLine(env["z_km"]))
    /\ pc' = 118
    /\ UNCHANGED <<argv, env, lat_lon, ret, stderr, exit_status, float_calls, sez_calls>>

\* main() returns to line 118 and the interpreter exits with status 0
Line118 ==
    /\ pc = 118
    /\ exit_status' = 0
    /\ pc' = 0
    /\ UNCHANGED <<argv, env, lat_lon, ret, stdout, stderr, float_calls, sez_calls>>

Next ==
    \/ Line97
    \/ Line98
    \/ Line99
    \/ \E i \in 1..6 : ParseArg(i)
    \/ Line110
    \/ Line113
    \/ Line114
    \/ Line115
    \/ Line118

Spec == Init /\ [][Next]_vars

(***************************************************************************)
(* Properties                                                              *)
(***************************************************************************)
\* x == y: the two zeros are equal, nan equals nothing
FEq(x, y) ==
    /\ x.k # "nan"
    /\ y.k # "nan"
    /\ \/ x = y
       \/ IsZero(x) /\ IsZero(y)

\* x < y, x <= y, abs(x)
FLt(x, y) == LET d == FSub(x, y) IN d.k # "nan" /\ ~IsZero(d) /\ d.s = 1
FLe(x, y) == FLt(x, y) \/ FEq(x, y)
FAbs(x) == [x EXCEPT !.s = 0]

\* |x - y| <= 2^-40 * scale: equal up to the rounding of a few operations
Close(x, y, scale) == FLe(FAbs(FSub(x, y)), FMul(FAbs(scale), Fin(0, <<1>>, -40)))

\* the i-th argument as a float, when it is a literal
Arg(i) == float(argv[i + 1]).val
SixArgs == Len(argv) = 7
AllLiterals == \A i \in 2..Len(argv) : argv[i] \notin NotLiterals
Called == sez_calls = 1
Returned == sez_calls = 1 /\ ret.exc = ""
TypeOK ==
    /\ pc \in {0, 97, 98, 99, 102, 103, 104, 105, 106, 107, 110, 113, 114, 115, 118}
    /\ exit_status \in {-1, 0, 1}
    /\ (pc = 0) = (exit_status # -1)
    /\ float_calls \in 0..6
    /\ sez_calls \in 0..1
    /\ Len(stdout) <= 3
    /\ Len(stderr) <= 1

\* The three components as the specification writes them, from the angles in
\* radians, evaluated left to right as Python evaluates them.
SezFormula(phi, lambda, ox, oy, oz, x, y, z) ==
    LET dx == FSub(x, ox)
        dy == FSub(y, oy)
        dz == FSub(z, oz)
    IN  [south  |-> FAdd(FSub(FMul(FMul(FNeg(math_sin(phi)), math_cos(lambda)), dx),
                              FMul(FMul(math_sin(phi), math_sin(lambda)), dy)),
                         FMul(math_cos(phi), dz)),
         east   |-> FAdd(FMul(FNeg(math_sin(lambda)), dx), FMul(math_cos(lambda), dy)),
         zenith |-> FAdd(FAdd(FMul(FMul(math_cos(phi), math_cos(lambda)), dx),
                              FMul(FMul(math_cos(phi), math_sin(lambda)), dy)),
                         FMul(math_sin(phi), dz))]

SameSez(r, f) == r.s_km = f.south /\ r.e_km = f.east /\ r.z_km = f.zenith

\* lambda and phi as the claim writes them, and after the conversion to degrees
\* and back that the code and section 4.2 of the specification make
Lambda == math_atan2(Arg(2), Arg(1))
Phi == math_atan2(Arg(3), math_sqrt(FAdd(FMul(Arg(1), Arg(1)), FMul(Arg(2), Arg(2)))))
ViaDegrees(a) == math_radians(math_degrees(a))

\* C1: for every observer and target, ecef_to_sez returns the three components
\* of the rotation formula applied to d = P - O, with dz the difference of the
\* z arguments although line 90 rebinds z_km.  The angles are taken either as
\* the claim writes them or through degrees and back, so that only a call that
\* returns something else, or nothing, violates the statement.
C1_ReturnsRotation ==
    Called =>
        /\ ret.exc = ""
        /\ \/ SameSez(ret, SezFormula(Phi, Lambda, Arg(1), Arg(2), Arg(3),
                                      Arg(4), Arg(5), Arg(6)))
           \/ SameSez(ret, SezFormula(ViaDegrees(Phi), ViaDegrees(Lambda),
                                      Arg(1), Arg(2), Arg(3), Arg(4), Arg(5), Arg(6)))

\* C2: with a number of arguments other than 6 the program prints the usage
\* message, exits with status 1, parses nothing, never calls the transform and
\* prints no result line.
C2_UsageError ==
    ~SixArgs =>
        /\ float_calls = 0
        /\ sez_calls = 0
        /\ stderr = << >>
        /\ pc \in {97, 98, 99, 0}
        /\ stdout = IF pc \in {99, 0} THEN <<StrLine(Usage)>> ELSE << >>
        /\ pc = 0 => exit_status = 1

C2_Witness ==
    /\ Len(argv) = 9
    /\ AllLiterals
    /\ pc = 0
    /\ exit_status = 1
    /\ stdout = <<StrLine(Usage)>>

\* C3: with 6 arguments of which one at least is no float literal, the run
\* ends with a non-zero status before ecef_to_sez is called and with nothing
\* printed, whichever position holds the bad argument.
C3_BadLiteral ==
    (SixArgs /\ ~AllLiterals) =>
        /\ sez_calls = 0
        /\ stdout = << >>
        /\ pc \in {97, 102, 103, 104, 105, 106, 107, 0}
        /\ pc = 0 =>
              /\ exit_status = 1
              /\ stderr = <<"ValueError">>
              \* float() was called up to the first bad argument and no further
              /\ argv[float_calls + 1] \in NotLiterals
              /\ \A i \in 2..float_calls : argv[i] \notin NotLiterals

C3_Witness ==
    /\ SixArgs
    /\ argv[7] \in NotLiterals
    /\ \A i \in 2..6 : argv[i] \notin NotLiterals
    /\ pc = 0
    /\ float_calls = 6
    /\ exit_status = 1

\* C4: with 6 arguments that all parse, the program exits with status 0 after
\* printing exactly the south, east and zenith components, in this order.
C4_SuccessOutput ==
    (SixArgs /\ AllLiterals /\ pc = 0) =>
        /\ exit_status = 0
        /\ ret.exc = ""
        /\ stdout = <<FloatLine(ret.s_km), FloatLine(ret.e_km), FloatLine(ret.z_km)>>

\* C5: for finite inputs ecef_to_lat_lon and ecef_to_sez raise nothing, so a
\* run with 6 finite arguments never ends with an unhandled exception.
C5_NoTransformError ==
    (SixArgs /\ AllLiterals /\ \A i \in 1..6 : IsFinite(Arg(i))) =>
        /\ stderr = << >>
        /\ lat_lon.exc = ""
        /\ ret.exc = ""

\* C6: zero offset: when the target equals the observer, ecef_to_sez returns
\* south = 0, east = 0 and zenith = 0.
C6_ZeroOffset ==
    (Called /\ FEq(Arg(4), Arg(1)) /\ FEq(Arg(5), Arg(2)) /\ FEq(Arg(6), Arg(3))) =>
        /\ ret.exc = ""
        /\ FEq(ret.s_km, Zero(0))
        /\ FEq(ret.e_km, Zero(0))
        /\ FEq(ret.z_km, Zero(0))

\* Observers O other than the origin with targets P = O + k * O/|O|, k > 0:
\* <<O, P, k>>
RadialCases == {
    << <<"1", "0", "0">>, <<"2", "0", "0">>, Fin(0, <<1>>, 0) >>,
    << <<"0", "0", "1">>, <<"0", "0", "2">>, Fin(0, <<1>>, 0) >>,
    << <<"6378", "0", "0">>, <<"6379", "0", "0">>, Fin(0, <<1>>, 0) >>,
    << <<"0", "0", "6356">>, <<"0", "0", "6357">>, Fin(0, <<1>>, 0) >>,
    << <<"0", "0", "-1">>, <<"0", "0", "-2">>, Fin(0, <<1>>, 0) >>,
    << <<"-1", "0", "0">>, <<"-2", "0", "0">>, Fin(0, <<1>>, 0) >>,
    << <<"0", "1", "0">>, <<"0", "2", "0">>, Fin(0, <<1>>, 0) >>,
    << <<"3", "4", "0">>, <<"6", "8", "0">>, Fin(0, <<5>>, 0) >>,
    << <<"2", "2", "1">>, <<"4", "4", "2">>, Fin(0, <<3>>, 0) >>,
    << <<"1e200", "0", "0">>, <<"2e200", "0", "0">>, Fin(0, <<12589, 22487, 20017, 83>>, 613) >> }

\* C7: zenith alignment: for a target displaced by k radially outward from the
\* observer, ecef_to_sez returns zenith = k, south = 0 and east = 0; stated here
\* up to rounding (the specification's "approximately 0").
C7_ZenithAlignment ==
    \A c \in RadialCases :
        (Called /\ SubSeq(argv, 2, 7) = c[1] \o c[2]) =>
            LET k == c[3]
            IN  /\ ret.exc = ""
                /\ Close(ret.z_km, k, k)
                /\ Close(ret.s_km, Zero(0), k)
                /\ Close(ret.e_km, Zero(0), k)

\* x*x + y*y + z*z
SumSq(x, y, z) == FAdd(FAdd(FMul(x, x), FMul(y, y)), FMul(z, z))

\* C10: length preservation: the result (s, e, z) of ecef_to_sez(O, P) has
\* s^2 + e^2 + z^2 = dx^2 + dy^2 + dz^2 for d = P - O, for every observer;
\* stated here up to rounding.
C10_LengthPreserved ==
    Called =>
        /\ ret.exc = ""
        /\ LET d2 == SumSq(FSub(Arg(4), Arg(1)), FSub(Arg(5), Arg(2)), FSub(Arg(6), Arg(3)))
           IN  Close(SumSq(ret.s_km, ret.e_km, ret.z_km), d2, d2)

Deg90 == Fin(0, <<45>>, 1)
Deg180 == Fin(0, <<45>>, 2)
OnPolarAxis == Called /\ IsZero(env["o_x_km"]) /\ IsZero(env["o_y_km"])

\* C8 as claimed: for every observer with ox = 0 and oy = 0, ecef_to_lat_lon
\* returns longitude 0 and, when oz > 0, latitude 90 degrees, and does not fail.
C8_PolarAxisLongitudeZero ==
    OnPolarAxis =>
        /\ lat_lon.exc = ""
        /\ FEq(lat_lon.lon_deg, Zero(0))
        /\ FLt(Zero(0), env["o_z_km"]) => lat_lon.lat_deg = Deg90

\* C8 as amended: for every observer with ox = 0 and oy = 0, ecef_to_lat_lon
\* returns longitude 0 when ox is +0.0, and 180 degrees with the sign of oy
\* when ox is -0.0; when oz > 0 it returns latitude 90 degrees; it does not fail.
C8_PolarAxisSignedZero ==
    OnPolarAxis =>
        /\ lat_lon.exc = ""
        /\ env["o_x_km"].s = 0 => FEq(lat_lon.lon_deg, Zero(0))
        /\ env["o_x_km"].s = 1 =>
              lat_lon.lon_deg = [Deg180 EXCEPT !.s = env["o_y_km"].s]
        /\ FLt(Zero(0), env["o_z_km"]) => lat_lon.lat_deg = Deg90

C8_Witness ==
    /\ OnPolarAxis
    /\ env["o_x_km"] = Zero(1)
    /\ env["o_y_km"] = Zero(0)
    /\ env["o_z_km"] = Fin(0, <<1589>>, 2)
    /\ lat_lon.lon_deg = Deg180
    /\ lat_lon.lat_deg = Deg90

\* repr(x) of a float with an integer value below 2^15, as print writes it
float_repr(x) ==
    IF IsZero(x) THEN (IF x.s = 1 THEN "-0.0" ELSE "0.0")
    ELSE (IF x.s = 1 THEN "-" ELSE "") \o ToString(x.m[1] * 2 ^ x.e) \o ".0"

EquatorialArgv == <<"ecef_to_sez.py", "6378", "0", "0", "6378", "0", "1">>

\* C9: with observer (6378, 0, 0) and target (6378, 0, 1) the observer angles
\* are latitude 0 and longitude 0 degrees, ecef_to_sez returns south = 1.0,
\* east = 0.0, zenith = 0.0, and the program prints 1.0, 0.0, 0.0 in this order.
C9_EquatorialCase ==
    argv = EquatorialArgv =>
        /\ stderr = << >>
        /\ Called =>
              /\ lat_lon = [exc |-> "", lat_deg |-> Zero(0), lon_deg |-> Zero(0)]
              /\ ret = [exc |-> "", s_km |-> Fin(0, <<1>>, 0),
                        e_km |-> Zero(0), z_km |-> Zero(0)]
        /\ pc = 0 =>
              /\ exit_status = 0
              /\ Len(stdout) = 3
              /\ \A i \in 1..3 : stdout[i].kind = "float"
              /\ [i \in 1..3 |-> float_repr(stdout[i].val)] = <<"1.0", "0.0", "0.0">>

C9_Witness ==
    /\ argv = EquatorialArgv
    /\ pc = 0
    /\ exit_status = 0
    /\ Len(stdout) = 3

\* Where the call returns, the statements of C1, C4, C5, C6, C7 and C10 above
\* hold: each fails only on the inputs for which line 42 raises OverflowError.
HoldsWhereReturned ==
    ret.exc # "" \/ /\ C1_ReturnsRotation
                    /\ C4_SuccessOutput
                    /\ C5_NoTransformError
                    /\ C6_ZeroOffset
                    /\ C7_ZenithAlignment
                    /\ C10_LengthPreserved

\* Reachable: the result differs in the last place from the formula with the
\* angles not taken through degrees and back.
RoundTripDiffers ==
    /\ Returned
    /\ ~SameSez(ret, SezFormula(Phi, Lambda, Arg(1), Arg(2), Arg(3),
                                Arg(4), Arg(5), Arg(6)))

\* Reachable: a radial displacement with a south component that is not 0,
\* cos(pi/2) as the library returns it.
RadialResidue ==
    /\ Returned
    /\ SubSeq(argv, 2, 7) = <<"0", "0", "6356", "0", "0", "6357">>
    /\ ret.s_km = Fin(0, <<23559, 26152, 6296, 141>>, -106)
    /\ ret.z_km = Fin(0, <<1>>, 0)
====
